---------------------------- MODULE Spec2Model ----------------------------
(***************************************************************************)
(* Model of src/src/decode.rs (axum-keycloak-auth): verification of a      *)
(* bearer token against the cached decoding keys, with one refresh of the  *)
(* keys and one retry, and the assembly of the normalised KeycloakToken.   *)
(*                                                                         *)
(* jsonwebtoken and time are third-party crates; their operations are      *)
(* modelled by what they return for the token attributes that decide it.   *)
(* KeycloakAuthInstance (crate::instance) is modelled from its interface:  *)
(* decoding_keys() reads the key cache, perform_oidc_discovery() replaces  *)
(* the cache by the provider's current keys.                               *)
(***************************************************************************)
EXTENDS Integers, Sequences, FiniteSets, TLC

(***************************************************************************)
(* Bounds of the model.                                                    *)
(***************************************************************************)
\* longest key set held by the cache or published by the provider
MaxKeys == 2
\* number of times the provider replaces its keys while calls are running
MaxRotations == 1
\* number of concurrent decode_and_validate calls in SpecConc
NumCalls == 2
\* most role names in realm_access, most in resource_access over all clients,
\* and longest list of required or of forbidden roles
MaxRoles == 2

(***************************************************************************)
(* Keys, algorithms, tokens.                                               *)
(***************************************************************************)
Keys == {"k1", "k2", "k3"}

\* the signer of a token no provider key ever matches
NoKey == "none"

\* jsonwebtoken::DecodingKey carries the family of the key material
KeyFamily(k) == IF k = "k3" THEN "Ec" ELSE "Rsa"

Algs == {"RS256", "ES256"}

\* jsonwebtoken::Algorithm::family
AlgFamily(a) == IF a = "ES256" THEN "Ec" ELSE "Rsa"

\* the realm of kc_instance.config, as a string of characters
Realm == <<"r">>

\* the values an iss claim takes: absent, a JSON value that is no string, or a
\* string (a sequence of characters)
IssAbsent == [kind |-> "absent", str |-> <<>>]
IssNotString == [kind |-> "other", str |-> <<>>]
IssString(s) == [kind |-> "string", str |-> s]
IssStrings ==
    { <<"/", "r">>, <<"\\", "r">>, <<"r">>, <<"\\", "r", "x">>, <<"x", "/", "r">> }
IssValues == {IssAbsent, IssNotString} \cup { IssString(s) : s \in IssStrings }

Audiences == {"a", "b"}
AudAbsent == "absent"

\* An encoded token, by the attributes that decide what the decoders return:
\*   hdr      the header segment decodes
\*   alg      the alg of the header
\*   signer   the key whose signature the token carries
\*   aud, iss the claims of the payload
\*   fault    a defect of the payload that claim validation rejects under
\*            every Validation (exp in the past, exp missing)
\*   insecure the decode of contains_realm, which checks no signature but
\*            validates the claims under Validation::new(HS256), accepts it
TokenRecords ==
    [hdr : BOOLEAN, alg : Algs, signer : Keys \cup {NoKey},
     aud : Audiences \cup {AudAbsent}, iss : IssValues,
     fault : {"none", "expired"}, insecure : BOOLEAN]

\* a token whose header does not decode is never looked at further: one
\* representative stands for all of them
BadHeaderToken ==
    [hdr |-> FALSE, alg |-> "RS256", signer |-> NoKey, aud |-> AudAbsent,
     iss |-> IssAbsent, fault |-> "none", insecure |-> FALSE]

\* The insecure decode rejects a faulty payload and accepts a sound one that
\* carries no aud; whether it accepts a sound payload that carries an aud,
\* with no audience set in its Validation, is left open.
InsecureConsistent(t) ==
    /\ t.insecure => t.fault = "none"
    /\ (t.fault = "none" /\ t.aud = AudAbsent) => t.insecure

Tokens ==
    {BadHeaderToken} \cup { t \in TokenRecords : t.hdr /\ InsecureConsistent(t) }

\* the claim map of the token's payload
Payload(t) == [iss |-> t.iss, aud |-> t.aud]

RECURSIVE SeqsUpTo(_, _)
SeqsUpTo(S, n) ==
    IF n = 0 THEN { <<>> }
    ELSE LET shorter == SeqsUpTo(S, n - 1)
         IN  shorter \cup
             { Append(s, k) : s \in { q \in shorter : Len(q) = n - 1 }, k \in S }

Range(s) == { s[i] : i \in 1..Len(s) }

\* ordered key sets without repetition
KeySeqs == { s \in SeqsUpTo(Keys, MaxKeys) : Cardinality(Range(s)) = Len(s) }

(***************************************************************************)
(* Results: Ok(claims) or Err(AuthError).                                  *)
(***************************************************************************)
Ok(claims) == [ok |-> TRUE, claims |-> claims, err |-> "-", kind |-> "-"]

\* AuthError::NoDecodingKeys, AuthError::DecodeHeader, and AuthError::Decode
\* with the jsonwebtoken ErrorKind of its source
NoClaims == [iss |-> IssAbsent, aud |-> AudAbsent]
Err(e, kind) == [ok |-> FALSE, claims |-> NoClaims, err |-> e, kind |-> kind]
NoDecodingKeys == Err("NoDecodingKeys", "-")
DecodeHeaderError == Err("DecodeHeader", "-")
DecodeError(kind) == Err("Decode", kind)

(***************************************************************************)
(* jsonwebtoken.                                                           *)
(***************************************************************************)
\* jsonwebtoken::decode_header
JwtDecodeHeader(t) ==
    IF t.hdr THEN [ok |-> TRUE, alg |-> t.alg] ELSE [ok |-> FALSE, alg |-> t.alg]

\* a variant of ValidationFor that enables audience validation with whatever
\* list it is given, the empty one too
ValidationFor_AlwaysValidates(alg, expected_audiences) ==
    [alg |-> alg, validate_aud |-> TRUE, aud |-> Range(expected_audiences)]

\* Validation::new(header.alg) with the audience policy of lines 42-48
ValidationFor(alg, expected_audiences) ==
    IF expected_audiences # <<>>
    THEN [alg |-> alg, validate_aud |-> TRUE, aud |-> Range(expected_audiences)]
    ELSE [alg |-> alg, validate_aud |-> FALSE, aud |-> {}]

\* the claim validation of jsonwebtoken::decode, after the signature
JwtValidateClaims(t, validation) ==
    IF t.fault = "expired" THEN DecodeError("ExpiredSignature")
    ELSE IF /\ validation.validate_aud
            /\ t.aud # AudAbsent
            /\ t.aud \notin validation.aud
         THEN DecodeError("InvalidAudience")
    ELSE Ok(Payload(t))

\* jsonwebtoken::decode::<RawClaims>(token, key, &validation), signature checked:
\* the family of the key against the algorithm, the signature, the claims
JwtDecode(t, key, validation) ==
    IF KeyFamily(key) # AlgFamily(validation.alg) THEN DecodeError("InvalidAlgorithm")
    ELSE IF t.signer # key THEN DecodeError("InvalidSignature")
    ELSE JwtValidateClaims(t, validation)

\* jsonwebtoken::decode with insecure_disable_signature_validation(): the key
\* and the signature are not looked at
JwtDecodeInsecure(t, key) ==
    IF t.insecure THEN Ok(Payload(t)) ELSE DecodeError("InvalidToken")

(***************************************************************************)
(* RawToken::decode_and_validate and should_check_with_another_key.        *)
(***************************************************************************)
\* a variant of should_check_with_another_key that goes on to the next key after
\* every failure of the decode
should_check_with_another_key_AnyFailure(token_data) ==
    ~token_data.ok /\ token_data.err = "Decode"

should_check_with_another_key(token_data) ==
    IF ~token_data.ok /\ token_data.err = "Decode"
    THEN token_data.kind = "InvalidSignature"
    ELSE FALSE

\* the loop of lines 54-60 over the keys still to try
RECURSIVE KeyLoop(_, _, _, _)
KeyLoop(t, validation, decoding_keys, token_data) ==
    IF decoding_keys = <<>> THEN token_data
    ELSE LET next_data == JwtDecode(t, Head(decoding_keys), validation)
         IN  IF ~should_check_with_another_key(next_data)
             THEN next_data
             ELSE KeyLoop(t, validation, Tail(decoding_keys), next_data)

RawDecodeAndValidate(t, header, expected_audiences, decoding_keys) ==
    KeyLoop(t, ValidationFor(header.alg, expected_audiences), decoding_keys,
            NoDecodingKeys)

(***************************************************************************)
(* contains_realm.                                                         *)
(***************************************************************************)
EndsWith(s, suffix) ==
    /\ Len(suffix) <= Len(s)
    /\ SubSeq(s, Len(s) - Len(suffix) + 1, Len(s)) = suffix

\* format!("\\{}", realm): a backslash, then the realm
RealmSuffix(realm) == <<"\\">> \o realm

\* keys.iter().next(): <<k>> for Some(k), <<>> for None
First(keys) == IF keys = <<>> THEN <<>> ELSE <<Head(keys)>>

\* key is such an Option
contains_realm(key, t, realm) ==
    IF key = <<>> THEN FALSE
    ELSE LET token_data == JwtDecodeInsecure(t, key[1])
         IN  /\ token_data.ok
             /\ token_data.claims.iss.kind = "string"
             /\ EndsWith(token_data.claims.iss.str, RealmSuffix(realm))

(***************************************************************************)
(* Timestamps.  An i64 is written as three limbs in base 10^9, most        *)
(* significant first, each carrying the sign of the number; the order of   *)
(* the numbers is the lexicographic order of the limbs.                    *)
(***************************************************************************)
I64_MAX == <<9, 223372036, 854775807>>
I64_MIN == <<-9, -223372036, -854775808>>

\* the range of time::OffsetDateTime in seconds since the epoch:
\* -9999-01-01T00:00:00Z .. 9999-12-31T23:59:59Z
MinUnixTimestamp == <<0, -377, -705116800>>
MaxUnixTimestamp == <<0, 253, 402300799>>

Before(a, b) ==
    \/ a[1] < b[1]
    \/ a[1] = b[1] /\ a[2] < b[2]
    \/ a[1] = b[1] /\ a[2] = b[2] /\ a[3] < b[3]

\* the instants the model evaluates at, all within the range
Instants ==
    { MinUnixTimestamp, <<0, 0, 0>>, <<0, 1, 700000000>>, <<0, 1, 700000001>>,
      MaxUnixTimestamp }

\* the i64 values the model feeds as exp and iat
I64Values ==
    Instants \cup
    { I64_MIN, <<0, -377, -705116801>>, <<0, 0, -1>>, <<0, 253, 402300800>>, I64_MAX }

\* Option<i64>
None == <<>>
Some(x) == <<x>>

(***************************************************************************)
(* Roles.  RealmAccess holds a list of role names, ResourceAccess a map    *)
(* from client name to such a list.  The role type R is supplied by the    *)
(* application, with a conversion from a role name and a Display.          *)
(***************************************************************************)
RoleNames == {"admin", "user"}
Clients == {"c1", "c2"}

\* the values of the application's role type R
RoleValues == {"Admin", "User"}

\* role.into(): String -> R
IntoRole(name) == IF name = "admin" THEN "Admin" ELSE "User"

\* expected.to_string(): R -> String
RoleToString(r) == IF r = "Admin" THEN "admin" ELSE "user"

RoleNameLists == SeqsUpTo(RoleNames, MaxRoles)

\* Option<RealmAccess>
RealmAccessValues == {None} \cup { Some(roles) : roles \in RoleNameLists }

\* ResourceAccess.num_roles(): the sum of the lengths of the clients' lists
RECURSIVE SumLen(_, _)
SumLen(access, clients) ==
    IF clients = {} THEN 0
    ELSE LET c == CHOOSE x \in clients : TRUE
         IN  Len(access[c]) + SumLen(access, clients \ {c})

ResourceNumRoles(access) == SumLen(access, DOMAIN access)

\* RealmAccess.num_roles()
RealmNumRoles(roles) == Len(roles)

\* the HashMap<String, Access> of ResourceAccess, up to MaxRoles roles in all
ResourceMaps ==
    UNION { { m \in [cs -> RoleNameLists] : ResourceNumRoles(m) <= MaxRoles } :
            cs \in SUBSET Clients }

\* Option<ResourceAccess>
ResourceAccessValues == {None} \cup { Some(m) : m \in ResourceMaps }

\* KeycloakRole::Realm { role } and KeycloakRole::Client { client, role }
RealmRole(role) == [tag |-> "Realm", client |-> "-", role |-> role]
ClientRole(client, role) == [tag |-> "Client", client |-> client, role |-> role]

\* KeycloakRole::role(): the role an entry carries
RoleOf(entry) == entry.role

\* lines 254-260: one Realm entry per role name, in order
ExtractRealmRoles(roles) ==
    [i \in 1..Len(roles) |-> RealmRole(IntoRole(roles[i]))]

\* the orders in which a HashMap may hand out its entries
IterationOrders(access) ==
    { order \in SeqsUpTo(DOMAIN access, Cardinality(DOMAIN access)) :
        /\ Len(order) = Cardinality(DOMAIN access)
        /\ Range(order) = DOMAIN access }

\* lines 262-273: for each client in the map's iteration order, one Client
\* entry per role name of that client, in order
RECURSIVE ExtractResourceRoles(_, _)
ExtractResourceRoles(access, order) ==
    IF order = <<>> THEN <<>>
    ELSE [i \in 1..Len(access[Head(order)]) |->
              ClientRole(Head(order), IntoRole(access[Head(order)][i]))]
         \o ExtractResourceRoles(access, Tail(order))

\* (raw.realm_access, raw.resource_access).extract_roles(&mut roles): the
\* realm container first, then the resource container; an absent container
\* contributes nothing
ExtractRoles(realm_access, resource_access, order) ==
    (IF realm_access = None THEN <<>> ELSE ExtractRealmRoles(realm_access[1]))
    \o (IF resource_access = None THEN <<>>
        ELSE ExtractResourceRoles(resource_access[1], order))

\* the iteration orders of an Option<ResourceAccess>
OrdersOf(resource_access) ==
    IF resource_access = None THEN { <<>> } ELSE IterationOrders(resource_access[1])

(***************************************************************************)
(* KeycloakToken::parse, is_expired, assert_not_expired.                   *)
(***************************************************************************)
\* time::OffsetDateTime::from_unix_timestamp: Err(ComponentRange) outside the range
from_unix_timestamp(timestamp) ==
    IF Before(timestamp, MinUnixTimestamp) \/ Before(MaxUnixTimestamp, timestamp)
    THEN [ok |-> FALSE, instant |-> <<0, 0, 0>>]
    ELSE [ok |-> TRUE, instant |-> timestamp]

NoToken == [expires_at |-> <<0, 0, 0>>, issued_at |-> <<0, 0, 0>>, roles |-> <<>>]
TokenOk(token) == [ok |-> TRUE, token |-> token, err |-> "-", field |-> "-"]
InvalidToken(field) == [ok |-> FALSE, token |-> NoToken, err |-> "InvalidToken", field |-> field]

\* raw.exp.map_or(i64::MAX, |x| x)
ExpOrMax(exp) == IF exp = None THEN I64_MAX ELSE exp[1]

\* a variant of KeycloakTokenParse that extracts the resource roles before the
\* realm roles
KeycloakTokenParse_ResourceFirst(raw, order) ==
    LET expires_at == from_unix_timestamp(ExpOrMax(raw.exp))
        issued_at == from_unix_timestamp(raw.iat)
    IN  IF ~expires_at.ok THEN InvalidToken("exp")
        ELSE IF ~issued_at.ok THEN InvalidToken("iat")
        ELSE TokenOk([expires_at |-> expires_at.instant,
                      issued_at |-> issued_at.instant,
                      roles |-> ExtractRoles(None, raw.resource_access, order)
                                \o ExtractRoles(raw.realm_access, None, order)])

\* lines 308-337: the timestamps and the roles; order is the order in which the
\* map of resource_access hands out its clients
KeycloakTokenParse(raw, order) ==
    LET expires_at == from_unix_timestamp(ExpOrMax(raw.exp))
        issued_at == from_unix_timestamp(raw.iat)
    IN  IF ~expires_at.ok THEN InvalidToken("exp")
        ELSE IF ~issued_at.ok THEN InvalidToken("iat")
        ELSE TokenOk([expires_at |-> expires_at.instant,
                      issued_at |-> issued_at.instant,
                      roles |-> ExtractRoles(raw.realm_access, raw.resource_access, order)])

\* a variant of is_expired that counts the instant of expiry as expired
is_expired_AtExpiry(token, instant) == ~Before(instant, token.expires_at)

\* now_utc() > self.expires_at
is_expired(token, instant) == Before(token.expires_at, instant)

Passed == [ok |-> TRUE, err |-> "-"]
TokenExpired == [ok |-> FALSE, err |-> "TokenExpired"]
assert_not_expired(token, instant) ==
    IF is_expired(token, instant) THEN TokenExpired ELSE Passed

(***************************************************************************)
(* expect_roles, not_expect_roles, and the results of parse_raw_claims.    *)
(***************************************************************************)
\* Ok(..), and Err(AuthError) with what the error carries
Accepted == [ok |-> TRUE, err |-> "-", detail |-> "-"]
Rejected(err, detail) == [ok |-> FALSE, err |-> err, detail |-> detail]

\* a variant of HasRole that looks at the realm-level entries only
HasRole_RealmOnly(token, expected) ==
    \E i \in 1..Len(token.roles) :
        token.roles[i].tag = "Realm" /\ RoleOf(token.roles[i]) = expected

\* self.roles.iter().any(|role| role.role() == &expected)
HasRole(token, expected) ==
    \E i \in 1..Len(token.roles) : RoleOf(token.roles[i]) = expected

\* lines 358-368: the first expected role no entry carries is reported
RECURSIVE expect_roles(_, _)
expect_roles(token, roles) ==
    IF roles = <<>> THEN Accepted
    ELSE IF ~HasRole(token, Head(roles))
         THEN Rejected("MissingExpectedRole", RoleToString(Head(roles)))
         ELSE expect_roles(token, Tail(roles))

\* lines 370-378: the first listed role some entry carries is refused
RECURSIVE not_expect_roles(_, _)
not_expect_roles(token, roles) ==
    IF roles = <<>> THEN Accepted
    ELSE IF HasRole(token, Head(roles))
         THEN Rejected("UnexpectedRole", "-")
         ELSE not_expect_roles(token, Tail(roles))

\* the lists of roles a caller requires or forbids
RoleLists == SeqsUpTo(RoleValues, MaxRoles)

\* The JSON value built from the RawClaims, by what the typed projection
\* reads: iat as an Option (absent from the map or present), the other
\* required fields as one flag, and the optional members.
JsonValues ==
    [required : BOOLEAN, exp : {None} \cup { Some(x) : x \in I64Values },
     iat : {None} \cup { Some(x) : x \in I64Values },
     realm_access : RealmAccessValues, resource_access : ResourceAccessValues]

NoStandardClaims ==
    [exp |-> None, iat |-> <<0, 0, 0>>, realm_access |-> None, resource_access |-> None]

\* serde_json::from_value::<StandardClaims>: fails when a required field is
\* missing, otherwise the typed claims
from_value(value) ==
    IF ~value.required \/ value.iat = None
    THEN [ok |-> FALSE, claims |-> NoStandardClaims]
    ELSE [ok |-> TRUE,
          claims |-> [exp |-> value.exp, iat |-> value.iat[1],
                      realm_access |-> value.realm_access,
                      resource_access |-> value.resource_access]]

(***************************************************************************)
(* State.                                                                  *)
(***************************************************************************)
VARIABLES
    cache,       \* the decoding keys KeycloakAuthInstance holds, in order
    provider,    \* the keys the identity provider publishes now
    rotations,   \* how often the provider has replaced its keys
    history,     \* history[n + 1]: the cache after the n-th discovery
    expected,    \* expected_audiences
    pc,          \* pc[c]: where call c of decode_and_validate stands
    tok,         \* tok[c]: the raw_token of call c
    raw_claims,  \* raw_claims[c]: the local raw_claims of call c
    log,         \* log[c]: what call c did so far, in program order
    std,         \* the StandardClaims handed to KeycloakToken::parse
    ppc,         \* where the assembly of the KeycloakToken stands
    parsed,      \* the result of KeycloakToken::parse
    now,         \* the instant OffsetDateTime::now_utc() returned
    verdict,     \* the result of assert_not_expired
    value,       \* the JSON value built from the raw_claims of parse_raw_claims
    required_roles,  \* the required_roles of parse_raw_claims
    result,      \* what parse_raw_claims returned
    forbidden,   \* the roles handed to not_expect_roles on the returned token
    refusal      \* the result of not_expect_roles

\* the state of token assembly, which the calls of decode_and_validate leave alone
assembly == <<std, ppc, parsed, now, verdict, value, required_roles, result,
              forbidden, refusal>>

vars == <<cache, provider, rotations, history, expected, pc, tok, raw_claims, log,
          assembly>>

\* the calls in flight
Calls == DOMAIN pc

\* number of discoveries completed so far, by any call
Epoch == Len(history) - 1

\* entries of log[c]: a run of the Decode/Validate Primitive, a run of the
\* issuer heuristic (both with the keys read for it), or a discovery
AttemptEvent(keys, out) ==
    [op |-> "attempt", keys |-> keys, out |-> out, found |-> FALSE, epoch |-> Epoch]
PeekEvent(keys, found) ==
    [op |-> "peek", keys |-> keys, out |-> NoDecodingKeys, found |-> found, epoch |-> Epoch]
DiscoveryEvent(keys) ==
    [op |-> "discovery", keys |-> keys, out |-> NoDecodingKeys, found |-> FALSE,
     epoch |-> Epoch + 1]

Events(c, op) == SelectSeq(log[c], LAMBDA e : e.op = op)

ExpectedAudiences == { <<>>, <<"a">> }

NotStarted == Err("NotStarted", "-")

(***************************************************************************)
(* KeycloakAuthInstance, from its interface.                               *)
(***************************************************************************)
\* decoding_keys().await: the keys of the cache at the time of the read
decoding_keys == cache

\* perform_oidc_discovery().await: the cache takes the provider's keys
perform_oidc_discovery ==
    /\ cache' = provider
    /\ history' = Append(history, provider)

(***************************************************************************)
(* The async decode_and_validate, one action per suspension point.         *)
(***************************************************************************)
\* a variant of AfterFirstFailure in which an empty cache is no case of its
\* own: every failure goes through the issuer heuristic
AfterFirstFailure_AlwaysPeek(first) ==
    CASE first.err \in {"NoDecodingKeys", "Decode"} -> "peek"
      [] OTHER -> "done"

\* lines 102-120: what follows a failed first attempt
AfterFirstFailure(first) ==
    CASE first.err = "NoDecodingKeys" -> "discover"
      [] first.err = "Decode" -> "peek"
      [] OTHER -> "done"

\* a variant of DecodeHeader that drops the failure and goes on
DecodeHeader_FailureDropped(c) ==
    /\ pc[c] = "start"
    /\ pc' = [pc EXCEPT ![c] = "first"]
    /\ UNCHANGED <<cache, provider, rotations, history, expected, tok, raw_claims,
                   log, assembly>>

\* line 89: the header is decoded; a failure is returned at once
DecodeHeader(c) ==
    /\ pc[c] = "start"
    /\ LET header == JwtDecodeHeader(tok[c])
       IN  IF header.ok
           THEN /\ pc' = [pc EXCEPT ![c] = "first"]
                /\ UNCHANGED raw_claims
           ELSE /\ pc' = [pc EXCEPT ![c] = "done"]
                /\ raw_claims' = [raw_claims EXCEPT ![c] = DecodeHeaderError]
    /\ UNCHANGED <<cache, provider, rotations, history, expected, tok, log, assembly>>

\* a variant of FirstAttempt that refreshes the keys after every first decode,
\* a successful one too
FirstAttempt_AlwaysRefreshes(c) ==
    /\ pc[c] = "first"
    /\ LET keys == decoding_keys
           first == RawDecodeAndValidate(tok[c], JwtDecodeHeader(tok[c]), expected, keys)
       IN  /\ raw_claims' = [raw_claims EXCEPT ![c] = first]
           /\ log' = [log EXCEPT ![c] = Append(@, AttemptEvent(keys, first))]
           /\ pc' = [pc EXCEPT ![c] = IF first.ok THEN "discover"
                                     ELSE AfterFirstFailure(first)]
    /\ UNCHANGED <<cache, provider, rotations, history, expected, tok, assembly>>

\* lines 92-97 and the match of lines 102-107: the first decode
FirstAttempt(c) ==
    /\ pc[c] = "first"
    /\ LET keys == decoding_keys
           first == RawDecodeAndValidate(tok[c], JwtDecodeHeader(tok[c]), expected, keys)
       IN  /\ raw_claims' = [raw_claims EXCEPT ![c] = first]
           /\ log' = [log EXCEPT ![c] = Append(@, AttemptEvent(keys, first))]
           /\ pc' = [pc EXCEPT ![c] = IF first.ok THEN "done" ELSE AfterFirstFailure(first)]
    /\ UNCHANGED <<cache, provider, rotations, history, expected, tok, assembly>>

\* a variant of Heuristic that hands the claims of the insecure decode on as
\* the result when it decides against a retry
Heuristic_ReturnsPeek(c) ==
    /\ pc[c] = "peek"
    /\ LET keys == decoding_keys
           decoding_key == First(keys)
           found == contains_realm(decoding_key, tok[c], Realm)
           peeked == IF decoding_key = <<>>
                     THEN raw_claims[c]
                     ELSE JwtDecodeInsecure(tok[c], decoding_key[1])
       IN  /\ log' = [log EXCEPT ![c] = Append(@, PeekEvent(keys, found))]
           /\ pc' = [pc EXCEPT ![c] = IF found THEN "discover" ELSE "done"]
           /\ raw_claims' = [raw_claims EXCEPT ![c] = IF peeked.ok THEN peeked ELSE @]
    /\ UNCHANGED <<cache, provider, rotations, history, expected, tok, assembly>>

\* lines 108-117: the issuer heuristic on the first key of a fresh read
Heuristic(c) ==
    /\ pc[c] = "peek"
    /\ LET keys == decoding_keys
           decoding_key == First(keys)
           found == contains_realm(decoding_key, tok[c], Realm)
       IN  /\ log' = [log EXCEPT ![c] = Append(@, PeekEvent(keys, found))]
           /\ pc' = [pc EXCEPT ![c] = IF found THEN "discover" ELSE "done"]
    /\ UNCHANGED <<cache, provider, rotations, history, expected, tok, raw_claims, assembly>>

\* a variant of Discover that skips the refresh when another call has
\* refreshed the cache since this call read it
Discover_Deduplicated(c) ==
    /\ pc[c] = "discover"
    /\ IF Epoch > log[c][Len(log[c])].epoch
       THEN UNCHANGED <<cache, history, log>>
       ELSE /\ perform_oidc_discovery
            /\ log' = [log EXCEPT ![c] = Append(@, DiscoveryEvent(provider))]
    /\ pc' = [pc EXCEPT ![c] = "second"]
    /\ UNCHANGED <<provider, rotations, expected, tok, raw_claims, assembly>>

\* a variant of Discover that waits until the provider publishes a key
Discover_WaitsForKeys(c) ==
    /\ pc[c] = "discover"
    /\ provider # <<>>
    /\ perform_oidc_discovery
    /\ log' = [log EXCEPT ![c] = Append(@, DiscoveryEvent(provider))]
    /\ pc' = [pc EXCEPT ![c] = "second"]
    /\ UNCHANGED <<provider, rotations, expected, tok, raw_claims, assembly>>

\* lines 104 and 113: the refresh of the keys
Discover(c) ==
    /\ pc[c] = "discover"
    /\ perform_oidc_discovery
    /\ log' = [log EXCEPT ![c] = Append(@, DiscoveryEvent(provider))]
    /\ pc' = [pc EXCEPT ![c] = "second"]
    /\ UNCHANGED <<provider, rotations, expected, tok, raw_claims, assembly>>

\* a variant of SecondAttempt that classifies its failure like the first one
\* and may refresh and retry again
SecondAttempt_RetriesAgain(c) ==
    /\ pc[c] = "second"
    /\ LET keys == decoding_keys
           second == RawDecodeAndValidate(tok[c], JwtDecodeHeader(tok[c]), expected, keys)
       IN  /\ raw_claims' = [raw_claims EXCEPT ![c] = second]
           /\ log' = [log EXCEPT ![c] = Append(@, AttemptEvent(keys, second))]
           /\ pc' = [pc EXCEPT ![c] = IF second.ok THEN "done" ELSE AfterFirstFailure(second)]
    /\ UNCHANGED <<cache, provider, rotations, history, expected, tok, assembly>>

\* a variant of SecondAttempt that decodes with the keys read for the first
\* attempt instead of reading the cache again
SecondAttempt_StaleKeys(c) ==
    /\ pc[c] = "second"
    /\ LET keys == Events(c, "attempt")[1].keys
           second == RawDecodeAndValidate(tok[c], JwtDecodeHeader(tok[c]), expected, keys)
       IN  /\ raw_claims' = [raw_claims EXCEPT ![c] = second]
           /\ log' = [log EXCEPT ![c] = Append(@, AttemptEvent(keys, second))]
           /\ pc' = [pc EXCEPT ![c] = "done"]
    /\ UNCHANGED <<cache, provider, rotations, history, expected, tok, assembly>>

\* a variant of SecondAttempt that keeps the first failure when it fails too
SecondAttempt_KeepsFirstFailure(c) ==
    /\ pc[c] = "second"
    /\ LET keys == decoding_keys
           second == RawDecodeAndValidate(tok[c], JwtDecodeHeader(tok[c]), expected, keys)
       IN  /\ raw_claims' = [raw_claims EXCEPT ![c] = IF second.ok THEN second ELSE @]
           /\ log' = [log EXCEPT ![c] = Append(@, AttemptEvent(keys, second))]
           /\ pc' = [pc EXCEPT ![c] = "done"]
    /\ UNCHANGED <<cache, provider, rotations, history, expected, tok, assembly>>

\* lines 123-130: the second decode, whose outcome is returned
SecondAttempt(c) ==
    /\ pc[c] = "second"
    /\ LET keys == decoding_keys
           second == RawDecodeAndValidate(tok[c], JwtDecodeHeader(tok[c]), expected, keys)
       IN  /\ raw_claims' = [raw_claims EXCEPT ![c] = second]
           /\ log' = [log EXCEPT ![c] = Append(@, AttemptEvent(keys, second))]
           /\ pc' = [pc EXCEPT ![c] = "done"]
    /\ UNCHANGED <<cache, provider, rotations, history, expected, tok, assembly>>

\* the provider replaces its signing keys
Rotate(keys) ==
    /\ rotations < MaxRotations
    /\ keys # provider
    /\ provider' = keys
    /\ rotations' = rotations + 1
    /\ UNCHANGED <<cache, history, expected, pc, tok, raw_claims, log, assembly>>

(***************************************************************************)
(* Token assembly, lines 192-193 of parse_raw_claims.                      *)
(***************************************************************************)
NotChecked == [ok |-> FALSE, err |-> "NotChecked"]
NotParsed == [ok |-> FALSE, token |-> NoToken, err |-> "NotParsed", field |-> "-"]
NotReturned == Rejected("NotReturned", "-")
NotScreened == Rejected("NotScreened", "-")
NoJson ==
    [required |-> FALSE, exp |-> None, iat |-> None, realm_access |-> None,
     resource_access |-> None]

\* lines 187-191: the typed projection of the raw claims
Project ==
    /\ ppc = "value"
    /\ LET standard_claims == from_value(value)
       IN  /\ std' = standard_claims.claims
           /\ ppc' = IF standard_claims.ok THEN "claims" ELSE "failed"
           /\ result' = IF standard_claims.ok THEN result ELSE Rejected("JsonParse", "-")
    /\ UNCHANGED <<cache, provider, rotations, history, expected, pc, tok, raw_claims,
                   log, parsed, now, verdict, value, required_roles, forbidden, refusal>>

\* line 192: KeycloakToken::parse(standard_claims)?
Parse ==
    /\ ppc = "claims"
    /\ \E order \in OrdersOf(std.resource_access) :
          parsed' = KeycloakTokenParse(std, order)
    /\ ppc' = IF parsed'.ok THEN "token" ELSE "failed"
    /\ result' = IF parsed'.ok THEN result ELSE Rejected("InvalidToken", parsed'.field)
    /\ UNCHANGED <<cache, provider, rotations, history, expected, pc, tok, raw_claims,
                   log, std, now, verdict, value, required_roles, forbidden, refusal>>

\* line 193: keycloak_token.assert_not_expired()?, at whatever instant it runs
AssertNotExpired ==
    /\ ppc = "token"
    /\ \E instant \in Instants :
          /\ now' = instant
          /\ verdict' = assert_not_expired(parsed.token, instant)
    /\ ppc' = IF verdict'.ok THEN "checked" ELSE "failed"
    /\ result' = IF verdict'.ok THEN result ELSE Rejected("TokenExpired", "-")
    /\ UNCHANGED <<cache, provider, rotations, history, expected, pc, tok, raw_claims,
                   log, std, parsed, value, required_roles, forbidden, refusal>>

\* a variant of ExpectRoles that checks the first required role only
ExpectRoles_FirstOnly ==
    /\ ppc = "checked"
    /\ result' = expect_roles(parsed.token, First(required_roles))
    /\ ppc' = IF result'.ok THEN "returned" ELSE "failed"
    /\ UNCHANGED <<cache, provider, rotations, history, expected, pc, tok, raw_claims,
                   log, std, parsed, now, verdict, value, required_roles, forbidden,
                   refusal>>

\* lines 194-195: keycloak_token.expect_roles(required_roles)?, then the return
ExpectRoles ==
    /\ ppc = "checked"
    /\ result' = expect_roles(parsed.token, required_roles)
    /\ ppc' = IF result'.ok THEN "returned" ELSE "failed"
    /\ UNCHANGED <<cache, provider, rotations, history, expected, pc, tok, raw_claims,
                   log, std, parsed, now, verdict, value, required_roles, forbidden,
                   refusal>>

\* the caller screens the returned token with not_expect_roles
NotExpectRoles ==
    /\ ppc = "returned"
    /\ \E roles \in RoleLists :
          /\ forbidden' = roles
          /\ refusal' = not_expect_roles(parsed.token, roles)
    /\ ppc' = "screened"
    /\ UNCHANGED <<cache, provider, rotations, history, expected, pc, tok, raw_claims,
                   log, std, parsed, now, verdict, value, required_roles, result>>

\* no token is being assembled
NoAssembly ==
    /\ std = NoStandardClaims
    /\ ppc = "off"
    /\ parsed = NotParsed
    /\ now = <<0, 0, 0>>
    /\ verdict = NotChecked
    /\ value = NoJson
    /\ required_roles = <<>>
    /\ result = NotReturned
    /\ forbidden = <<>>
    /\ refusal = NotScreened

(***************************************************************************)
(* Specifications.                                                         *)
(***************************************************************************)
\* one call, any token, any cache and any provider keys
Init ==
    /\ cache \in KeySeqs
    /\ provider \in KeySeqs
    /\ rotations = 0
    /\ history = <<cache>>
    /\ expected \in ExpectedAudiences
    /\ pc = [c \in {1} |-> "start"]
    /\ tok \in [{1} -> Tokens]
    /\ raw_claims = [c \in {1} |-> NotStarted]
    /\ log = [c \in {1} |-> <<>>]
    /\ NoAssembly

Next ==
    \/ \E c \in Calls : DecodeHeader(c)
    \/ \E c \in Calls : FirstAttempt(c)
    \/ \E c \in Calls : Heuristic(c)
    \/ \E c \in Calls : Discover(c)
    \/ \E c \in Calls : SecondAttempt(c)

Spec == Init /\ [][Next]_vars

\* NumCalls concurrent calls sharing one cache, while the provider rotates its
\* keys; tokens signed by one of two keys of one family, whose issuer the
\* heuristic accepts or not
ConcKeys == {"k1", "k2"}
ConcKeySeqs == { s \in KeySeqs : Range(s) \subseteq ConcKeys }
ConcToken(signer, iss) ==
    [hdr |-> TRUE, alg |-> "RS256", signer |-> signer, aud |-> AudAbsent,
     iss |-> IssString(iss), fault |-> "none", insecure |-> TRUE]
ConcTokens ==
    << ConcToken("k1", <<"\\", "r">>), ConcToken("k2", <<"/", "r">>) >>

\* the calls are interchangeable: their tokens are drawn in nondecreasing order
InitConc ==
    /\ cache \in ConcKeySeqs
    /\ provider \in ConcKeySeqs
    /\ rotations = 0
    /\ history = <<cache>>
    /\ expected = <<>>
    /\ pc = [c \in 1..NumCalls |-> "start"]
    /\ \E f \in [1..NumCalls -> 1..Len(ConcTokens)] :
          /\ \A c, d \in 1..NumCalls : c < d => f[c] <= f[d]
          /\ tok = [c \in 1..NumCalls |-> ConcTokens[f[c]]]
    /\ raw_claims = [c \in 1..NumCalls |-> NotStarted]
    /\ log = [c \in 1..NumCalls |-> <<>>]
    /\ NoAssembly

NextConc ==
    \/ \E c \in Calls : DecodeHeader(c)
    \/ \E c \in Calls : FirstAttempt(c)
    \/ \E c \in Calls : Heuristic(c)
    \/ \E c \in Calls : Discover(c)
    \/ \E c \in Calls : SecondAttempt(c)
    \/ \E keys \in ConcKeySeqs : Rotate(keys)

SpecConc == InitConc /\ [][NextConc]_vars

\* a step of call c
Step(c) ==
    \/ DecodeHeader(c)
    \/ FirstAttempt(c)
    \/ Heuristic(c)
    \/ Discover(c)
    \/ SecondAttempt(c)

\* the concurrent calls while the provider keeps its keys
NextLive ==
    \/ \E c \in Calls : DecodeHeader(c)
    \/ \E c \in Calls : FirstAttempt(c)
    \/ \E c \in Calls : Heuristic(c)
    \/ \E c \in Calls : Discover(c)
    \/ \E c \in Calls : SecondAttempt(c)

\* The concurrent calls under the scheduling of the async runtime: a call that
\* can take its next step (its await has returned) is polled again.
SpecLive ==
    /\ InitConc
    /\ [][NextLive]_vars
    /\ \A c \in 1..NumCalls : WF_vars(Step(c))

\* the assembly of a KeycloakToken from any StandardClaims, no call running
InitParse ==
    /\ cache = <<>>
    /\ provider = <<>>
    /\ rotations = 0
    /\ history = <<cache>>
    /\ expected = <<>>
    /\ pc = [c \in {1} |-> "done"]
    /\ tok = [c \in {1} |-> BadHeaderToken]
    /\ raw_claims = [c \in {1} |-> DecodeHeaderError]
    /\ log = [c \in {1} |-> <<>>]
    /\ std \in [exp : {None} \cup { Some(x) : x \in I64Values }, iat : I64Values,
                realm_access : {None}, resource_access : {None}]
    /\ ppc = "claims"
    /\ parsed = NotParsed
    /\ now = <<0, 0, 0>>
    /\ verdict = NotChecked
    /\ value = NoJson
    /\ required_roles = <<>>
    /\ result = NotReturned
    /\ forbidden = <<>>
    /\ refusal = NotScreened

NextParse ==
    \/ Parse
    \/ AssertNotExpired

SpecParse == InitParse /\ [][NextParse]_vars

\* parse_raw_claims from the JSON value to the returned token, and the screening
\* of the token by the caller: any role containers and required roles, and the
\* timestamps that decide each outcome
AssemblyExp == { None, Some(I64_MIN), Some(<<0, 1, 700000000>>) }
AssemblyIat == { None, Some(<<0, 0, 0>>), Some(I64_MAX) }
AssemblyValues ==
    { NoJson } \cup
    { v \in JsonValues : v.required /\ v.exp \in AssemblyExp /\ v.iat \in AssemblyIat }

InitAssembly ==
    /\ cache = <<>>
    /\ provider = <<>>
    /\ rotations = 0
    /\ history = <<cache>>
    /\ expected = <<>>
    /\ pc = [c \in {1} |-> "done"]
    /\ tok = [c \in {1} |-> BadHeaderToken]
    /\ raw_claims = [c \in {1} |-> DecodeHeaderError]
    /\ log = [c \in {1} |-> <<>>]
    /\ value \in AssemblyValues
    /\ required_roles \in RoleLists
    /\ std = NoStandardClaims
    /\ ppc = "value"
    /\ parsed = NotParsed
    /\ now = <<0, 0, 0>>
    /\ verdict = NotChecked
    /\ result = NotReturned
    /\ forbidden = <<>>
    /\ refusal = NotScreened

NextAssembly ==
    \/ Project
    \/ Parse
    \/ AssertNotExpired
    \/ ExpectRoles
    \/ NotExpectRoles

SpecAssembly == InitAssembly /\ [][NextAssembly]_vars

(***************************************************************************)
(* What a call did, read from its log.                                     *)
(***************************************************************************)
Attempts(c) == Events(c, "attempt")
Peeks(c) == Events(c, "peek")
Discoveries(c) == Events(c, "discovery")

\* the Validation both attempts of call c run with
ValidationOf(c) == ValidationFor(tok[c].alg, expected)

\* key k fully verifies the token of call c
Verifies(c, k) == JwtDecode(tok[c], k, ValidationOf(c)).ok

(***************************************************************************)
(* C1  decode_and_validate returns Ok(claims) only if a key of the cache   *)
(* snapshot read for its first or its second attempt fully verified the    *)
(* token, and the claims returned are the claims of that verification; the *)
(* outcome of the insecure issuer peek is never what is returned.          *)
(***************************************************************************)
C1_OkOnlyIfVerified ==
    \A c \in Calls :
        raw_claims[c].ok =>
            \E i \in 1..Len(Attempts(c)) :
                /\ i <= 2
                /\ \E k \in Range(Attempts(c)[i].keys) :
                      /\ Verifies(c, k)
                      /\ raw_claims[c] = JwtDecode(tok[c], k, ValidationOf(c))
                      /\ raw_claims[c].claims = Payload(tok[c])

\* a call that consulted the heuristic, refreshed, and was then verified
C1_Witness ==
    \E c \in Calls :
        /\ pc[c] = "done" /\ raw_claims[c].ok
        /\ Len(Attempts(c)) = 2 /\ Len(Peeks(c)) = 1
        /\ ~Attempts(c)[1].out.ok

(***************************************************************************)
(* C2  In one call perform_oidc_discovery runs at most once and the        *)
(* Decode/Validate Primitive at most twice, and what the second attempt    *)
(* returned is the result of the call, whatever kind of failure it is.     *)
(***************************************************************************)
C2_AtMostOneRetry ==
    \A c \in Calls :
        /\ Len(Discoveries(c)) <= 1
        /\ Len(Attempts(c)) <= 2
        /\ Len(Attempts(c)) = 2 =>
              /\ pc[c] = "done"
              /\ raw_claims[c] = Attempts(c)[2].out

\* a second attempt that failed in a way that would have asked for a retry
C2_Witness ==
    \E c \in Calls :
        /\ pc[c] = "done" /\ Len(Attempts(c)) = 2 /\ Len(Discoveries(c)) = 1
        /\ ~raw_claims[c].ok
        /\ \/ raw_claims[c].err = "NoDecodingKeys"
           \/ /\ raw_claims[c].err = "Decode"
              /\ contains_realm(First(cache), tok[c], Realm)

(***************************************************************************)
(* C3  A token signed by a key of the current cache, with the algorithm of *)
(* that key and (if audiences are enforced) a matching audience, is        *)
(* accepted with its payload as the claims, wherever the signing key       *)
(* stands in the key set and whatever the other keys answer.               *)
(***************************************************************************)
AudienceMatches(t, expected_audiences) ==
    expected_audiences = <<>> \/ t.aud \in Range(expected_audiences)

SignedByCachedKey(c) ==
    /\ Len(Attempts(c)) >= 1
    /\ \A i \in 1..Len(Attempts(c)) : tok[c].signer \in Range(Attempts(c)[i].keys)
    /\ KeyFamily(tok[c].signer) = AlgFamily(tok[c].alg)
    /\ AudienceMatches(tok[c], expected)
    /\ tok[c].fault = "none"

C3_SignedByCachedKeySucceeds ==
    \A c \in Calls :
        (pc[c] = "done" /\ SignedByCachedKey(c)) => raw_claims[c] = Ok(Payload(tok[c]))

(***************************************************************************)
(* C4  A token whose signature fails against every key of a non-empty      *)
(* cache, and whose iss ends with the realm name after the separator of    *)
(* the realm path, makes the call run discovery exactly once and attempt   *)
(* the verification a second time.  (Stated for the tokens whose issuer    *)
(* the insecure decode can read.)                                          *)
(***************************************************************************)
\* the issuer of a realm is the URL <base>/realms/<realm>
RealmPathSeparator == "/"

IssuerMatchesRealm(iss, realm) ==
    /\ iss.kind = "string"
    /\ EndsWith(iss.str, <<RealmPathSeparator>> \o realm)

SignatureFailsOnAllKeys(c) ==
    /\ Len(Attempts(c)) >= 1
    /\ Attempts(c)[1].keys # <<>>
    /\ \A k \in Range(Attempts(c)[1].keys) :
          JwtDecode(tok[c], k, ValidationOf(c)) = DecodeError("InvalidSignature")

C4_MatchingIssuerRetriesOnce ==
    \A c \in Calls :
        (/\ pc[c] = "done"
         /\ SignatureFailsOnAllKeys(c)
         /\ tok[c].insecure
         /\ IssuerMatchesRealm(tok[c].iss, Realm))
        => (Len(Discoveries(c)) = 1 /\ Len(Attempts(c)) = 2)

(***************************************************************************)
(* C5  A token no key of a non-empty cache matches, and whose iss does not *)
(* end with the realm suffix, fails with the failure of the first attempt: *)
(* no discovery, no second attempt.                                        *)
(***************************************************************************)
NoCachedKeyMatches(c) ==
    /\ Len(Attempts(c)) >= 1
    /\ Attempts(c)[1].keys # <<>>
    /\ tok[c].signer \notin Range(Attempts(c)[1].keys)

C5_ForeignIssuerNoDiscovery ==
    \A c \in Calls :
        (/\ pc[c] = "done"
         /\ NoCachedKeyMatches(c)
         /\ ~IssuerMatchesRealm(tok[c].iss, Realm))
        => /\ Len(Discoveries(c)) = 0
           /\ Len(Attempts(c)) = 1
           /\ ~raw_claims[c].ok
           /\ raw_claims[c] = Attempts(c)[1].out

(***************************************************************************)
(* C6  With an empty cache at the first attempt (the header decoded), the  *)
(* call always refreshes and retries exactly once, whatever the issuer:    *)
(* the heuristic is not run, and a cache still empty after the refresh     *)
(* gives NoDecodingKeys with no further refresh.                           *)
(***************************************************************************)
EmptyAtFirstAttempt(c) ==
    Len(Attempts(c)) >= 1 /\ Attempts(c)[1].keys = <<>>

C6_EmptyCacheRetriesOnce ==
    \A c \in Calls :
        EmptyAtFirstAttempt(c) =>
            /\ Attempts(c)[1].out = NoDecodingKeys
            /\ Len(Peeks(c)) = 0
            /\ pc[c] \in {"discover", "second", "done"}
            /\ pc[c] = "discover" => (Len(Discoveries(c)) = 0 /\ Len(Attempts(c)) = 1)
            /\ pc[c] = "second" => (Len(Discoveries(c)) = 1 /\ Len(Attempts(c)) = 1)
            /\ pc[c] = "done" =>
                  /\ Len(Discoveries(c)) = 1
                  /\ Len(Attempts(c)) = 2
                  /\ raw_claims[c] = Attempts(c)[2].out
                  /\ Attempts(c)[2].keys = <<>> => raw_claims[c] = NoDecodingKeys

\* the cache was empty, the refresh left it empty, the issuer names the realm
C6_Witness ==
    \E c \in Calls :
        /\ pc[c] = "done" /\ EmptyAtFirstAttempt(c)
        /\ Len(Attempts(c)) = 2 /\ Attempts(c)[2].keys = <<>>
        /\ raw_claims[c] = NoDecodingKeys
        /\ tok[c].insecure /\ tok[c].iss = IssString(RealmSuffix(Realm))

(***************************************************************************)
(* C7  A token whose header does not decode is rejected at once with the   *)
(* header failure: the cache is never read, nothing is attempted, no       *)
(* discovery runs and the cache stays as it was.                           *)
(***************************************************************************)
C7_BadHeaderReturnsAtOnce ==
    \A c \in Calls :
        ~JwtDecodeHeader(tok[c]).ok =>
            /\ pc[c] \in {"start", "done"}
            /\ log[c] = <<>>
            /\ pc[c] = "done" => raw_claims[c] = DecodeHeaderError
            /\ Calls = {c} => (history = <<cache>>)

C7_Witness ==
    \E c \in Calls :
        /\ ~JwtDecodeHeader(tok[c]).ok
        /\ pc[c] = "done" /\ raw_claims[c] = DecodeHeaderError
        /\ cache # provider

(***************************************************************************)
(* C8  In a call that retries, the keys of the second attempt are read     *)
(* from the cache after the call's own discovery has completed, however    *)
(* the steps of other calls fall in between: never the keys read for the   *)
(* first attempt or for the heuristic.                                     *)
(***************************************************************************)
C8_ReadAfterRefresh ==
    \A c \in Calls :
        Len(Attempts(c)) = 2 =>
            /\ Len(Discoveries(c)) = 1
            /\ Attempts(c)[2].epoch >= Discoveries(c)[1].epoch
            /\ Attempts(c)[2].keys = history[Attempts(c)[2].epoch + 1]
            /\ Attempts(c)[1].epoch < Discoveries(c)[1].epoch
            /\ \A i \in 1..Len(Peeks(c)) : Peeks(c)[i].epoch < Discoveries(c)[1].epoch

\* the second attempt saw other keys than the first attempt and the heuristic,
\* and another call refreshed in between
C8_Witness ==
    \E c \in Calls :
        /\ Len(Attempts(c)) = 2 /\ Len(Peeks(c)) = 1
        /\ Attempts(c)[2].keys # Attempts(c)[1].keys
        /\ Attempts(c)[2].keys # Peeks(c)[1].keys
        /\ Attempts(c)[2].epoch > Discoveries(c)[1].epoch

(***************************************************************************)
(* C9  A call returns one result: the outcome of the second attempt when   *)
(* it retried (the first failure is dropped), else the outcome of the      *)
(* first attempt as it was.                                                *)
(***************************************************************************)
Retried(c) == Len(Discoveries(c)) >= 1

C9_OneTerminalResult ==
    \A c \in Calls :
        /\ pc[c] = "done" /\ Retried(c) =>
              (Len(Attempts(c)) = 2 /\ raw_claims[c] = Attempts(c)[2].out)
        /\ pc[c] = "done" /\ ~Retried(c) /\ JwtDecodeHeader(tok[c]).ok =>
              (Len(Attempts(c)) = 1 /\ raw_claims[c] = Attempts(c)[1].out)
        /\ pc[c] # "done" => ~raw_claims[c].ok

\* both attempts failed, each in its own way, and the second failure is returned
C9_Witness ==
    \E c \in Calls :
        /\ pc[c] = "done" /\ Retried(c)
        /\ ~Attempts(c)[1].out.ok /\ ~Attempts(c)[2].out.ok
        /\ Attempts(c)[1].out # Attempts(c)[2].out
        /\ raw_claims[c] = Attempts(c)[2].out

(***************************************************************************)
(* C10  A token without exp never expires: KeycloakToken::parse of claims  *)
(* with exp absent succeeds, expires_at being the instant of the unix      *)
(* timestamp i64::MAX, and assert_not_expired succeeds on it at every      *)
(* instant.                                                                *)
(***************************************************************************)
C10_NoExpNeverExpires ==
    (ppc \in {"token", "failed", "checked"} /\ std.exp = None
        /\ from_unix_timestamp(std.iat).ok) =>
        /\ parsed.ok
        /\ parsed.token.expires_at = I64_MAX
        /\ verdict # TokenExpired

(***************************************************************************)
(* What parse_raw_claims was given and how far it came.                    *)
(***************************************************************************)
\* a timestamp within the range of OffsetDateTime
Convertible(timestamp) ==
    /\ ~Before(timestamp, MinUnixTimestamp)
    /\ ~Before(MaxUnixTimestamp, timestamp)

\* the typed projection of the value exists
Projects == value.required /\ value.iat # None

\* both timestamps of the projected claims convert
TimestampsConvert ==
    /\ Convertible(ExpOrMax(value.exp))
    /\ Convertible(value.iat[1])

\* parse_raw_claims has returned
Returned == ppc \in {"failed", "returned", "screened"}

\* expect_roles(required_roles) has run
ExpectRolesRan ==
    \/ ppc \in {"returned", "screened"}
    \/ ppc = "failed" /\ verdict = Passed

\* the positions of required roles that no entry of the role list carries
MissingAt(roles, required) ==
    { i \in 1..Len(required) : \A j \in 1..Len(roles) : roles[j].role # required[i] }

Min(S) == CHOOSE x \in S : \A y \in S : x <= y

(***************************************************************************)
(* C11  parse_raw_claims reports the first check that fails, in the order  *)
(* typed projection (JsonParse), timestamp conversion (InvalidToken),      *)
(* expiry (TokenExpired), required roles (MissingExpectedRole): claims     *)
(* that expired strictly before the current instant give TokenExpired also *)
(* when a required role is missing, and at the very instant of expires_at  *)
(* the token is not expired.                                               *)
(***************************************************************************)
C11_FirstFailingCheckReported ==
    Returned =>
        IF ~Projects THEN result = Rejected("JsonParse", "-")
        ELSE IF ~TimestampsConvert THEN result.err = "InvalidToken"
        ELSE IF Before(value.exp[1], now) THEN result = Rejected("TokenExpired", "-")
        ELSE IF MissingAt(parsed.token.roles, required_roles) # {}
             THEN result.err = "MissingExpectedRole"
        ELSE result = Accepted

\* expired one second ago, and a required role is missing too
C11_Witness ==
    /\ ppc = "failed"
    /\ result = Rejected("TokenExpired", "-")
    /\ value.exp = Some(<<0, 1, 700000000>>) /\ now = <<0, 1, 700000001>>
    /\ MissingAt(parsed.token.roles, required_roles) # {}

(***************************************************************************)
(* C12  expect_roles succeeds exactly when every required role occurs in   *)
(* the role list of the token; otherwise it fails with MissingExpectedRole *)
(* naming the first required role, in list order, that is absent.  An      *)
(* empty list of required roles always succeeds.                           *)
(***************************************************************************)
C12_FirstMissingRoleNamed ==
    ExpectRolesRan =>
        LET missing == MissingAt(parsed.token.roles, required_roles)
        IN  /\ result.ok <=> missing = {}
            /\ missing # {} =>
                  result = Rejected("MissingExpectedRole",
                                    RoleToString(required_roles[Min(missing)]))
            /\ required_roles = <<>> => result = Accepted

\* "admin" is required after a role the token has, and the token holds only
\* "user" entries
C12_Witness ==
    /\ ppc = "failed" /\ verdict = Passed
    /\ required_roles = <<"User", "Admin">>
    /\ Len(parsed.token.roles) >= 1
    /\ result = Rejected("MissingExpectedRole", "admin")

(***************************************************************************)
(* C13  The role list of the token holds the realm roles as Realm entries  *)
(* in their order, then the resource roles as Client entries, each         *)
(* client's roles contiguous, in their order and tagged with the client;   *)
(* its length is the number of realm roles plus the sum of the clients'    *)
(* role counts: nothing is dropped, nothing deduplicated.                  *)
(***************************************************************************)
RealmNames == IF std.realm_access = None THEN <<>> ELSE std.realm_access[1]
ResourceMap == IF std.resource_access = None THEN <<>> ELSE std.resource_access[1]

\* the positions of the role list that are tagged with client c
PositionsOf(roles, c) == { i \in 1..Len(roles) : roles[i].client = c }

C13_RolesInOrder ==
    parsed.ok =>
        LET roles == parsed.token.roles
            n == Len(RealmNames)
        IN  /\ Len(roles) = RealmNumRoles(RealmNames) + ResourceNumRoles(ResourceMap)
            /\ Len(roles) >= n
            /\ \A i \in 1..n : roles[i] = RealmRole(IntoRole(RealmNames[i]))
            /\ \A i \in (n + 1)..Len(roles) :
                  roles[i].tag = "Client" /\ roles[i].client \in DOMAIN ResourceMap
            /\ \A c \in DOMAIN ResourceMap :
                  LET at == PositionsOf(roles, c)
                  IN  /\ Cardinality(at) = Len(ResourceMap[c])
                      /\ at # {} =>
                            /\ at = Min(at)..(Min(at) + Len(ResourceMap[c]) - 1)
                            /\ Min(at) > n
                            /\ \A k \in 1..Len(ResourceMap[c]) :
                                  roles[Min(at) + k - 1] =
                                      ClientRole(c, IntoRole(ResourceMap[c][k]))

\* a realm role and a client role of the same name, and a second client whose
\* entries come first in the list
C13_Witness ==
    /\ parsed.ok
    /\ Len(RealmNames) = 1
    /\ DOMAIN ResourceMap = {"c1", "c2"}
    /\ Len(parsed.token.roles) = 3
    /\ parsed.token.roles[1].role = parsed.token.roles[3].role
    /\ parsed.token.roles[2].client = "c2"
    /\ parsed.token.roles[3].client = "c1"

(***************************************************************************)
(* C14  Audience policy of the Decode/Validate Primitive.  With an empty   *)
(* expected_audiences no attempt rejects a token on audience grounds: its  *)
(* outcome is the same whatever aud the token carries, or none.  With a    *)
(* non-empty list, a token carrying an aud outside the list is rejected by *)
(* every attempt, the first and the second (with InvalidAudience once its  *)
(* signature is verified), and an aud of the list is never a ground for    *)
(* rejection.                                                              *)
(***************************************************************************)
\* the token with another aud claim, or none
WithAud(t, aud) == [t EXCEPT !.aud = aud]

\* the first key tried verifies the signature of t, and its payload is sound
VerifiedByFirstKey(t, keys) ==
    /\ keys # <<>>
    /\ t.signer = Head(keys)
    /\ KeyFamily(Head(keys)) = AlgFamily(t.alg)
    /\ t.fault = "none"

C14_AudiencePolicy ==
    \A c \in Calls : \A i \in 1..Len(Attempts(c)) :
        LET t == tok[c]
            keys == Attempts(c)[i].keys
            out == Attempts(c)[i].out
        IN  /\ expected = <<>> =>
                  /\ out.kind # "InvalidAudience"
                  /\ \A aud \in Audiences \cup {AudAbsent} :
                        RawDecodeAndValidate(WithAud(t, aud), JwtDecodeHeader(t),
                                             expected, keys).ok = out.ok
                  /\ VerifiedByFirstKey(t, keys) => out = Ok(Payload(t))
            /\ (expected # <<>> /\ t.aud # AudAbsent /\ t.aud \notin Range(expected)) =>
                  /\ ~out.ok
                  /\ VerifiedByFirstKey(t, keys) => out = DecodeError("InvalidAudience")
            /\ (expected # <<>> /\ t.aud \in Range(expected)) =>
                  /\ out.kind # "InvalidAudience"
                  /\ VerifiedByFirstKey(t, keys) => out = Ok(Payload(t))

\* the cache was empty, the refresh brought the signing key, and the second
\* attempt rejects the token for its audience
C14_Witness ==
    \E c \in Calls :
        /\ pc[c] = "done" /\ Len(Attempts(c)) = 2
        /\ expected = <<"a">> /\ tok[c].aud = "b"
        /\ Attempts(c)[1].out = NoDecodingKeys
        /\ VerifiedByFirstKey(tok[c], Attempts(c)[2].keys)
        /\ raw_claims[c] = DecodeError("InvalidAudience")

(***************************************************************************)
(* C15  Concurrent calls sharing one key cache: redundant refreshes are    *)
(* not deduplicated and do no harm.  Each call runs at most one discovery  *)
(* and at most two attempts; every call that went on to retry has run a    *)
(* discovery of its own, so the discoveries in all are as many as the      *)
(* retrying calls; and the result of a call is what that call returns when *)
(* it runs alone against a key set the cache held: for a retrying call a   *)
(* refreshed one, left by its own refresh or by a later one.               *)
(***************************************************************************)
\* the calls that have refreshed and gone on to their second attempt
RetryingCalls == { c \in Calls : pc[c] = "second" \/ Len(Attempts(c)) = 2 }

\* what a call with token t returns when it runs alone and the cache holds the
\* keys the provider publishes: a refresh changes nothing, so a retry repeats
\* the first attempt
AloneAgainst(t, keys) ==
    LET first == RawDecodeAndValidate(t, JwtDecodeHeader(t), expected, keys)
        retry == \/ first.err = "NoDecodingKeys"
                 \/ first.err = "Decode" /\ contains_realm(First(keys), t, Realm)
    IN  IF ~first.ok /\ retry
        THEN RawDecodeAndValidate(t, JwtDecodeHeader(t), expected, keys)
        ELSE first

EndsLoopAt(t, validation, keys) ==
    { i \in 1..Len(keys) :
        JwtDecode(t, keys[i], validation) # DecodeError("InvalidSignature") }

C16_KeyIteration ==
    \A c \in Calls : \A i \in 1..Len(Attempts(c)) :
        LET keys == Attempts(c)[i].keys
            out == Attempts(c)[i].out
            ends == EndsLoopAt(tok[c], ValidationOf(c), keys)
        IN  /\ out = NoDecodingKeys <=> keys = <<>>
            /\ ends # {} => out = JwtDecode(tok[c], keys[Min(ends)], ValidationOf(c))
            /\ (ends = {} /\ keys # <<>>) =>
                  out = JwtDecode(tok[c], keys[Len(keys)], ValidationOf(c))
            /\ out.ok =>
                  /\ Verifies(c, keys[Min(ends)])
                  /\ \A j \in 1..(Min(ends) - 1) : ~Verifies(c, keys[j])

\* the first key is of another family than the algorithm of the token, the
\* second key is its signer: the loop ends at the first and the second is not
\* tried
C16_Witness ==
    \E c \in Calls :
        /\ Len(Attempts(c)) >= 1
        /\ Len(Attempts(c)[1].keys) = 2
        /\ Verifies(c, Attempts(c)[1].keys[2])
        /\ Attempts(c)[1].out = DecodeError("InvalidAlgorithm")

(***************************************************************************)
(* C17  After a first attempt that failed with a decode failure, the call  *)
(* neither refreshes nor retries, and returns the first failure, whenever  *)
(* the cache read for the heuristic holds no key, the insecure decode      *)
(* fails, the iss claim is absent or no string, or iss does not end with   *)
(* the realm name after the separator of the realm path.                   *)
(***************************************************************************)
IssuerNotExtractedOrForeign(c) ==
    \/ Peeks(c)[1].keys = <<>>
    \/ ~JwtDecodeInsecure(tok[c], Head(Peeks(c)[1].keys)).ok
    \/ tok[c].iss.kind # "string"
    \/ ~IssuerMatchesRealm(tok[c].iss, Realm)

C17_NoRetryWithoutMatchingIssuer ==
    \A c \in Calls :
        (/\ pc[c] = "done"
         /\ Len(Attempts(c)) >= 1
         /\ Attempts(c)[1].out.err = "Decode"
         /\ IssuerNotExtractedOrForeign(c))
        => /\ Len(Discoveries(c)) = 0
           /\ Len(Attempts(c)) = 1
           /\ raw_claims[c] = Attempts(c)[1].out

(***************************************************************************)
(* C18  A call whose first attempt succeeds returns those claims and does  *)
(* nothing else: it has read the key cache once, run neither the issuer    *)
(* heuristic nor a discovery, and left the cache as it was.                *)
(***************************************************************************)
C18_FirstSuccessTouchesNothing ==
    \A c \in Calls :
        (Len(Attempts(c)) >= 1 /\ Attempts(c)[1].out.ok) =>
            /\ pc[c] = "done"
            /\ raw_claims[c] = Attempts(c)[1].out
            /\ raw_claims[c] = Ok(Payload(tok[c]))
            /\ Len(log[c]) = 1
            /\ Len(Peeks(c)) = 0
            /\ Len(Discoveries(c)) = 0
            /\ Calls = {c} => (history = <<cache>> /\ cache = Attempts(c)[1].keys)

\* verified at once by a stale cache, though the provider publishes other keys
\* and the issuer would have passed the heuristic
C18_Witness ==
    \E c \in Calls :
        /\ pc[c] = "done" /\ raw_claims[c].ok
        /\ Len(Attempts(c)) = 1
        /\ cache # provider
        /\ contains_realm(First(cache), tok[c], Realm)

(***************************************************************************)
(* C19  Every call returns: under weak fairness of its steps, each await   *)
(* of decoding_keys and perform_oidc_discovery returning, every call       *)
(* reaches Done, whatever its token, the cache and the steps of the other  *)
(* calls; and it moves forward only, from Initial by FirstAttemptFailed    *)
(* to DiscoveryTriggered and SecondAttempt, or to NoRetry, and to Done,    *)
(* never back to a state it has left.                                      *)
(***************************************************************************)
\* the places of a call in the order of the state machine
Rank(place) ==
    CASE place = "start" -> 1
      [] place = "first" -> 2
      [] place = "peek" -> 3
      [] place = "discover" -> 4
      [] place = "second" -> 5
      [] place = "done" -> 6

\* the moves of the state machine
Successors(place) ==
    CASE place = "start" -> {"first", "done"}
      [] place = "first" -> {"peek", "discover", "done"}
      [] place = "peek" -> {"discover", "done"}
      [] place = "discover" -> {"second"}
      [] place = "second" -> {"done"}
      [] place = "done" -> {}

MovesForward ==
    \A c \in 1..NumCalls :
        pc'[c] # pc[c] => (pc'[c] \in Successors(pc[c]) /\ Rank(pc'[c]) > Rank(pc[c]))

C19_EveryCallReturns ==
    /\ \A c \in 1..NumCalls : <>(pc[c] = "done")
    /\ [][MovesForward]_vars

\* all calls have returned, one of them by the heuristic, a refresh and a
\* second attempt, another without a retry
C19_Witness ==
    /\ \A c \in Calls : pc[c] = "done"
    /\ \E c \in Calls : Len(Peeks(c)) = 1 /\ Len(Attempts(c)) = 2
    /\ \E c \in Calls : Len(Attempts(c)) = 1

(***************************************************************************)
(* C20  The role checks compare the role value alone: expect_roles accepts *)
(* a required role as soon as any entry, realm-level or of any client,     *)
(* carries it, and not_expect_roles fails with UnexpectedRole as soon as   *)
(* any entry carries a listed role.                                        *)
(***************************************************************************)
\* some entry of the role list, of whatever tag and client, carries role r
Carried(roles, r) ==
    \E j \in 1..Len(roles) :
        /\ roles[j].role = r
        /\ \/ roles[j].tag = "Realm"
           \/ roles[j].tag = "Client" /\ roles[j].client \in Clients

C20_RoleValueAloneCompared ==
    LET roles == parsed.token.roles
    IN  /\ (/\ ExpectRolesRan
            /\ \A i \in 1..Len(required_roles) : Carried(roles, required_roles[i]))
           => result = Accepted
        /\ ppc = "screened" =>
              IF \E i \in 1..Len(forbidden) : Carried(roles, forbidden[i])
              THEN refusal = Rejected("UnexpectedRole", "-")
              ELSE refusal = Accepted

\* the required role is held for one client only, and the forbidden role for
\* another client only
C20_Witness ==
    /\ ppc = "screened"
    /\ required_roles = <<"Admin">> /\ result = Accepted
    /\ forbidden = <<"User">> /\ refusal = Rejected("UnexpectedRole", "-")
    /\ \A j \in 1..Len(parsed.token.roles) : parsed.token.roles[j].tag = "Client"
    /\ Len(parsed.token.roles) = 2
    /\ parsed.token.roles[1].client # parsed.token.roles[2].client

=============================================================================
